---- MODULE Spec2Model ----
(***************************************************************************)
(* pkg/scheduler/nodeinfo/snapshot/snapshot.go: the scheduler's Snapshot   *)
(* of the cache's NodeInfo map, its two constructors, and the PodLister /  *)
(* NodeInfoLister facades that read it.                                    *)
(*                                                                         *)
(* A *NodeInfo is a reference (an index into nodeInfos); 0 is the nil      *)
(* pointer.  Go ranges over a map in an unspecified order, so every range  *)
(* over NodeInfoMap takes its order as a nondeterministic input.           *)
(***************************************************************************)
EXTENDS Integers, Sequences, FiniteSets, Bags, TLC

VARIABLES
    pods,       \* the []*v1.Pod argument of the last NewSnapshot call
    nodes,      \* the []*v1.Node argument of the last NewSnapshot call
    nodeInfos,  \* the heap of NodeInfo objects the snapshot refers to
    snapshot,   \* the current *Snapshot
    built,      \* Generation of every snapshot built so far, oldest first
    ret,        \* the return values of the last query on the snapshot
    readers     \* the concurrent readers: position and locals of each

vars == <<pods, nodes, nodeInfos, snapshot, built, ret, readers>>

----------------------------------------------------------------------------
(* Bounds of the model *)

MaxPods == 3        \* longest pods argument
MaxNodes == 2       \* longest nodes argument
MaxSnapshots == 2   \* constructions after the initial empty snapshot
NumReaders == 2     \* concurrent readers of one snapshot
MaxCyclePods == 1   \* longest pods argument of a capture in SpecCycles

----------------------------------------------------------------------------
(* The domain types the snapshot is built from *)

\* *v1.Node: present = FALSE is the nil pointer
NilNode == [present |-> FALSE, name |-> ""]
Node(n) == [present |-> TRUE, name |-> n]

\* *v1.Pod: Spec.NodeName, Labels and whether it declares affinity terms
Pod(n, node, app, aff) ==
    [name |-> n, nodeName |-> node, labels |-> [app |-> app], affinity |-> aff]

p1 == Pod("p1", "A", "x", FALSE)
p2 == Pod("p2", "B", "y", TRUE)
p3 == Pod("p3", "A", "x", FALSE)
\* a pod not yet assigned to a node: Spec.NodeName is the empty string
p4 == Pod("p4", "", "y", FALSE)

PodUniverse == {p1, p2, p3, p4}
NodeNameUniverse == {"A", "B"}
\* names a caller may look up
LookupNames == {"", "A", "B", "C"}

SeqsUpTo(S, n) == UNION {[1..k -> S] : k \in 0..n}
PodInputs == SeqsUpTo(PodUniverse, MaxPods)
NodeInputs == {[i \in 1..Len(s) |-> Node(s[i])] : s \in SeqsUpTo(NodeNameUniverse, MaxNodes)}

\* every order in which a range loop may visit the keys of a map
Orders(S) ==
    {o \in [1..Cardinality(S) -> S] : \A i, j \in DOMAIN o : i # j => o[i] # o[j]}

\* labels.Selector: a conjunction of key = value requirements
Everything == {}
Selectors == {Everything, {<<"app", "x">>}, {<<"app", "y">>, <<"tier", "db">>}}

Matches(selector, labels) ==
    \A r \in selector : r[1] \in DOMAIN labels /\ labels[r[1]] = r[2]

\* schedulerlisters.PodFilter values a caller may pass
PodFilters == {"alwaysTrue", "alwaysFalse", "hasAffinity"}

podFilter(f, pod) ==
    CASE f = "alwaysTrue" -> TRUE
      [] f = "alwaysFalse" -> FALSE
      [] f = "hasAffinity" -> pod.affinity

----------------------------------------------------------------------------
(* schedulernodeinfo: NodeInfo and CreateNodeNameToInfoMap *)

NewNodeInfo == [node |-> NilNode, pods |-> <<>>, podsWithAffinity |-> <<>>]

AddPod(ni, pod) ==
    [ni EXCEPT !.pods = Append(@, pod),
               !.podsWithAffinity = IF pod.affinity THEN Append(@, pod) ELSE @]

SetNode(ni, node) == [ni EXCEPT !.node = node]

\* st.m: node name -> reference; st.h: the NodeInfo objects allocated so far
Ensure(st, name) ==
    IF name \in DOMAIN st.m
    THEN st
    ELSE [m |-> st.m @@ (name :> Len(st.h) + 1), h |-> Append(st.h, NewNodeInfo)]

RECURSIVE AddPods(_, _, _)
AddPods(st, ps, i) ==
    IF i > Len(ps)
    THEN st
    ELSE LET st1 == Ensure(st, ps[i].nodeName)
             r == st1.m[ps[i].nodeName]
         IN AddPods([st1 EXCEPT !.h[r] = AddPod(@, ps[i])], ps, i + 1)

RECURSIVE SetNodes(_, _, _)
SetNodes(st, ns, i) ==
    IF i > Len(ns)
    THEN st
    ELSE LET st1 == Ensure(st, ns[i].name)
             r == st1.m[ns[i].name]
         IN SetNodes([st1 EXCEPT !.h[r] = SetNode(@, ns[i])], ns, i + 1)

EmptyMap == [x \in {} |-> 0]

CreateNodeNameToInfoMap(ps, ns) ==
    SetNodes(AddPods([m |-> EmptyMap, h |-> <<>>], ps, 1), ns, 1)

----------------------------------------------------------------------------
(* snapshot.go: the constructors *)

NewEmptySnapshot ==
    [NodeInfoMap |-> EmptyMap,
     NodeInfoList |-> <<>>,
     HavePodsWithAffinityNodeInfoList |-> <<>>,
     Generation |-> 0]

PodsWithAffinity(h, r) == h[r].podsWithAffinity

\* the range loop of NewSnapshot, visiting the keys of m in the given order
RECURSIVE RangeNodeInfoMap(_, _, _, _, _)
RangeNodeInfoMap(m, h, order, i, acc) ==
    IF i > Len(order)
    THEN acc
    ELSE LET v == m[order[i]]
             list == Append(acc.nodeInfoList, v)
             have == IF Len(PodsWithAffinity(h, v)) > 0
                     THEN Append(acc.havePodsWithAffinityNodeInfoList, v)
                     ELSE acc.havePodsWithAffinityNodeInfoList
         IN RangeNodeInfoMap(m, h, order, i + 1,
                [nodeInfoList |-> list, havePodsWithAffinityNodeInfoList |-> have])

\* NewSnapshot ranging over the nodes argument instead of the map
NewSnapshotRangeNodes(ps, ns, order) ==
    LET c == CreateNodeNameToInfoMap(ps, ns)
        list == [i \in DOMAIN ns |-> c.m[ns[i].name]]
        s == NewEmptySnapshot
    IN [s EXCEPT !.NodeInfoMap = c.m,
                 !.NodeInfoList = list,
                 !.HavePodsWithAffinityNodeInfoList =
                     SelectSeq(list, LAMBDA v : Len(PodsWithAffinity(c.h, v)) > 0)]

\* NewSnapshot storing nodeInfoList in both list fields
NewSnapshotSameList(ps, ns, order) ==
    LET c == CreateNodeNameToInfoMap(ps, ns)
        l == RangeNodeInfoMap(c.m, c.h, order, 1,
                [nodeInfoList |-> <<>>, havePodsWithAffinityNodeInfoList |-> <<>>])
        s == NewEmptySnapshot
    IN [s EXCEPT !.NodeInfoMap = c.m,
                 !.NodeInfoList = l.nodeInfoList,
                 !.HavePodsWithAffinityNodeInfoList = l.nodeInfoList]

\* NewSnapshot without the assignment of s.NodeInfoMap
NewSnapshotNoMap(ps, ns, order) ==
    LET c == CreateNodeNameToInfoMap(ps, ns)
        l == RangeNodeInfoMap(c.m, c.h, order, 1,
                [nodeInfoList |-> <<>>, havePodsWithAffinityNodeInfoList |-> <<>>])
        s == NewEmptySnapshot
    IN [s EXCEPT !.NodeInfoList = l.nodeInfoList,
                 !.HavePodsWithAffinityNodeInfoList = l.havePodsWithAffinityNodeInfoList]

\* NewSnapshot stamping the snapshot with the number of its node infos
NewSnapshotStamped(ps, ns, order) ==
    LET c == CreateNodeNameToInfoMap(ps, ns)
        l == RangeNodeInfoMap(c.m, c.h, order, 1,
                [nodeInfoList |-> <<>>, havePodsWithAffinityNodeInfoList |-> <<>>])
        s == NewEmptySnapshot
    IN [s EXCEPT !.NodeInfoMap = c.m,
                 !.NodeInfoList = l.nodeInfoList,
                 !.HavePodsWithAffinityNodeInfoList = l.havePodsWithAffinityNodeInfoList,
                 !.Generation = Len(l.nodeInfoList)]

NewSnapshot(ps, ns, order) ==
    LET c == CreateNodeNameToInfoMap(ps, ns)
        l == RangeNodeInfoMap(c.m, c.h, order, 1,
                [nodeInfoList |-> <<>>, havePodsWithAffinityNodeInfoList |-> <<>>])
        s == NewEmptySnapshot
    IN [s EXCEPT !.NodeInfoMap = c.m,
                 !.NodeInfoList = l.nodeInfoList,
                 !.HavePodsWithAffinityNodeInfoList = l.havePodsWithAffinityNodeInfoList]

----------------------------------------------------------------------------
(* snapshot.go: the queries, as functions of the snapshot s and the heap h *)

NilError == <<>>
NilRef == 0

\* Snapshot.ListNodes
RECURSIVE ListNodesFrom(_, _, _)
ListNodesFrom(s, h, i) ==
    IF i > Len(s.NodeInfoList)
    THEN <<>>
    ELSE LET n == h[s.NodeInfoList[i]]
         IN (IF n.node.present THEN <<n.node>> ELSE <<>>) \o ListNodesFrom(s, h, i + 1)

\* ListNodes without the nil check
ListNodesAll(s, h) == [i \in DOMAIN s.NodeInfoList |-> h[s.NodeInfoList[i]].node]

ListNodes(s, h) == ListNodesFrom(s, h, 1)

\* the first loop of FilteredList; addition commutes, so the total does not
\* depend on the order of the range
RECURSIVE MaxSize(_, _, _)
MaxSize(s, h, keys) ==
    IF keys = {}
    THEN 0
    ELSE LET k == CHOOSE x \in keys : TRUE
         IN Len(h[s.NodeInfoMap[k]].pods) + MaxSize(s, h, keys \ {k})

\* the inner loop with || in place of &&
FilterPodsEither(ps, f, selector) ==
    SelectSeq(ps, LAMBDA pod : podFilter(f, pod) \/ Matches(selector, pod.labels))

\* the inner loop of FilteredList over one NodeInfo's pods
FilterPods(ps, f, selector) ==
    SelectSeq(ps, LAMBDA pod : podFilter(f, pod) /\ Matches(selector, pod.labels))

\* the second loop of FilteredList, visiting the keys in the given order
RECURSIVE FilterFrom(_, _, _, _, _, _)
FilterFrom(s, h, f, selector, order, i) ==
    IF i > Len(order)
    THEN <<>>
    ELSE FilterPods(h[s.NodeInfoMap[order[i]]].pods, f, selector)
            \o FilterFrom(s, h, f, selector, order, i + 1)

\* FilteredList reporting an empty result as an error
FilteredListErrOnEmpty(s, h, f, selector, order) ==
    LET ps == FilterFrom(s, h, f, selector, order, 1)
    IN [pods |-> ps,
        maxSize |-> MaxSize(s, h, DOMAIN s.NodeInfoMap),
        err |-> IF ps = <<>> THEN <<"no pods found">> ELSE NilError]

\* podLister.FilteredList
FilteredList(s, h, f, selector, order) ==
    [pods |-> FilterFrom(s, h, f, selector, order, 1),
     maxSize |-> MaxSize(s, h, DOMAIN s.NodeInfoMap),
     err |-> NilError]

\* List passing labels.Everything() instead of its selector
ListEverything(s, h, selector, order) == FilteredList(s, h, "alwaysTrue", Everything, order)

\* podLister.List
List(s, h, selector, order) == FilteredList(s, h, "alwaysTrue", selector, order)

\* nodeInfoLister.List
NodeInfosList(s) == [infos |-> s.NodeInfoList, err |-> NilError]

\* nodeInfoLister.HavePodsWithAffinityList
HavePodsWithAffinityList(s) ==
    [infos |-> s.HavePodsWithAffinityNodeInfoList, err |-> NilError]

\* Get returning the map's zero value, without the ok check
GetZeroValue(s, nodeName) ==
    [info |-> IF nodeName \in DOMAIN s.NodeInfoMap THEN s.NodeInfoMap[nodeName] ELSE NilRef,
     err |-> NilError]

\* nodeInfoLister.Get; fmt.Errorf's result is its format with its argument
Get(s, nodeName) ==
    IF nodeName \in DOMAIN s.NodeInfoMap
    THEN [info |-> s.NodeInfoMap[nodeName], err |-> NilError]
    ELSE [info |-> NilRef, err |-> <<"nodeinfo not found for node name %q", nodeName>>]

----------------------------------------------------------------------------
(* One scheduling cycle: the scheduler starts from the empty snapshot,      *)
(* takes the first capture, and a caller queries it one call at a time.     *)
(* ret holds what the last call returned until the caller has consumed it.  *)

NoRet == [op |-> "none", args |-> <<>>, out |-> <<>>]
Idle == [pc |-> "idle", op |-> "none", args |-> <<>>, visited |-> {},
         i |-> 0, maxSize |-> 0, acc |-> <<>>, out |-> <<>>]

Init ==
    /\ pods = <<>>
    /\ nodes = <<>>
    /\ nodeInfos = <<>>
    /\ snapshot = NewEmptySnapshot
    /\ built = <<snapshot.Generation>>
    /\ ret = NoRet
    /\ readers = [r \in 1..NumReaders |-> Idle]

\* NewSnapshot(ps, ns) replaces the current snapshot
Construct(ps, ns) ==
    LET c == CreateNodeNameToInfoMap(ps, ns)
    IN \E order \in Orders(DOMAIN c.m) :
         /\ pods' = ps
         /\ nodes' = ns
         /\ nodeInfos' = c.h
         /\ snapshot' = NewSnapshot(ps, ns, order)
         /\ built' = Append(built, snapshot'.Generation)

\* the first capture; later captures are SpecCycles's
NewSnapshotCall ==
    /\ ret = NoRet
    /\ Len(built) = 1
    /\ \E ps \in PodInputs, ns \in NodeInputs : Construct(ps, ns)
    /\ UNCHANGED <<ret, readers>>

PodsList ==
    /\ ret = NoRet
    /\ \E selector \in Selectors, order \in Orders(DOMAIN snapshot.NodeInfoMap) :
         ret' = [op |-> "Pods.List", args |-> <<selector>>,
                 out |-> List(snapshot, nodeInfos, selector, order)]
    /\ UNCHANGED <<pods, nodes, nodeInfos, snapshot, built, readers>>

PodsFilteredList ==
    /\ ret = NoRet
    /\ \E f \in PodFilters, selector \in Selectors,
          order \in Orders(DOMAIN snapshot.NodeInfoMap) :
         ret' = [op |-> "Pods.FilteredList", args |-> <<f, selector>>,
                 out |-> FilteredList(snapshot, nodeInfos, f, selector, order)]
    /\ UNCHANGED <<pods, nodes, nodeInfos, snapshot, built, readers>>

NodeInfosListCall ==
    /\ ret = NoRet
    /\ ret' = [op |-> "NodeInfos.List", args |-> <<>>, out |-> NodeInfosList(snapshot)]
    /\ UNCHANGED <<pods, nodes, nodeInfos, snapshot, built, readers>>

HavePodsWithAffinityListCall ==
    /\ ret = NoRet
    /\ ret' = [op |-> "NodeInfos.HavePodsWithAffinityList", args |-> <<>>,
               out |-> HavePodsWithAffinityList(snapshot)]
    /\ UNCHANGED <<pods, nodes, nodeInfos, snapshot, built, readers>>

GetCall ==
    /\ ret = NoRet
    /\ \E nodeName \in LookupNames :
         ret' = [op |-> "NodeInfos.Get", args |-> <<nodeName>>,
                 out |-> Get(snapshot, nodeName)]
    /\ UNCHANGED <<pods, nodes, nodeInfos, snapshot, built, readers>>

ListNodesCall ==
    /\ ret = NoRet
    /\ ret' = [op |-> "ListNodes", args |-> <<>>,
               out |-> [nodes |-> ListNodes(snapshot, nodeInfos)]]
    /\ UNCHANGED <<pods, nodes, nodeInfos, snapshot, built, readers>>

\* the caller has consumed the result of its call
Return ==
    /\ ret # NoRet
    /\ ret' = NoRet
    /\ UNCHANGED <<pods, nodes, nodeInfos, snapshot, built, readers>>

Next ==
    \/ NewSnapshotCall
    \/ PodsList
    \/ PodsFilteredList
    \/ NodeInfosListCall
    \/ HavePodsWithAffinityListCall
    \/ GetCall
    \/ ListNodesCall
    \/ Return

Spec == Init /\ [][Next]_vars

----------------------------------------------------------------------------
(* Successive scheduling cycles: every cycle replaces the snapshot by a new *)
(* capture.  built records the Generation each snapshot was built with.     *)

CyclePodInputs == SeqsUpTo(PodUniverse, MaxCyclePods)

NewSnapshotCycle ==
    /\ ret = NoRet
    /\ Len(built) <= MaxSnapshots
    /\ \E ps \in CyclePodInputs, ns \in NodeInputs : Construct(ps, ns)
    /\ UNCHANGED <<ret, readers>>

NextCycles ==
    \/ NewSnapshotCycle
    \/ NodeInfosListCall
    \/ GetCall
    \/ Return

SpecCycles == Init /\ [][NextCycles]_vars

----------------------------------------------------------------------------
(* Concurrent readers of one constructed snapshot.  A reader is at "idle",  *)
(* inside one of the loops of FilteredList or ListNodes, or at "done" with  *)
(* its return values in out.  Each loop iteration is one step, so the       *)
(* iterations of different readers interleave in every possible way.        *)

A == Node("A")
B == Node("B")

ReaderScenarios ==
    {[pods |-> <<p1, p2, p3>>, nodes |-> <<A, B>>],
     [pods |-> <<p2, p4>>, nodes |-> <<B>>]}

ReaderSelectors == {Everything, {<<"app", "x">>}}
ReaderFilters == {"hasAffinity"}

InitReaders ==
    /\ \E sc \in ReaderScenarios :
         LET c == CreateNodeNameToInfoMap(sc.pods, sc.nodes)
         IN \E order \in Orders(DOMAIN c.m) :
              /\ pods = sc.pods
              /\ nodes = sc.nodes
              /\ nodeInfos = c.h
              /\ snapshot = NewSnapshot(sc.pods, sc.nodes, order)
    /\ built = <<snapshot.Generation>>
    /\ ret = NoRet
    /\ readers = [r \in 1..NumReaders |-> Idle]

Keys == DOMAIN snapshot.NodeInfoMap

\* Get creating the entry it does not find
ReaderGetOrCreate(r) ==
    /\ readers[r].pc = "idle"
    /\ \E nodeName \in LookupNames :
         LET st == Ensure([m |-> snapshot.NodeInfoMap, h |-> nodeInfos], nodeName)
         IN /\ snapshot' = [snapshot EXCEPT !.NodeInfoMap = st.m]
            /\ nodeInfos' = st.h
            /\ readers' = [readers EXCEPT ![r] =
                  [Idle EXCEPT !.pc = "done", !.op = "NodeInfos.Get", !.args = <<nodeName>>,
                               !.out = [info |-> st.m[nodeName], err |-> NilError]]]
    /\ UNCHANGED <<pods, nodes, built, ret>>

ReaderGet(r) ==
    /\ readers[r].pc = "idle"
    /\ \E nodeName \in LookupNames :
         readers' = [readers EXCEPT ![r] =
             [Idle EXCEPT !.pc = "done", !.op = "NodeInfos.Get", !.args = <<nodeName>>,
                          !.out = Get(snapshot, nodeName)]]
    /\ UNCHANGED <<pods, nodes, nodeInfos, snapshot, built, ret>>

ReaderNodeInfosList(r) ==
    /\ readers[r].pc = "idle"
    /\ readers' = [readers EXCEPT ![r] =
           [Idle EXCEPT !.pc = "done", !.op = "NodeInfos.List",
                        !.out = NodeInfosList(snapshot)]]
    /\ UNCHANGED <<pods, nodes, nodeInfos, snapshot, built, ret>>

ReaderHavePodsWithAffinityList(r) ==
    /\ readers[r].pc = "idle"
    /\ readers' = [readers EXCEPT ![r] =
           [Idle EXCEPT !.pc = "done", !.op = "NodeInfos.HavePodsWithAffinityList",
                        !.out = HavePodsWithAffinityList(snapshot)]]
    /\ UNCHANGED <<pods, nodes, nodeInfos, snapshot, built, ret>>

\* ListNodes: make, then one step per element of NodeInfoList
ReaderListNodes(r) ==
    /\ readers[r].pc = "idle"
    /\ readers' = [readers EXCEPT ![r] =
           [Idle EXCEPT !.pc = "listNodes", !.op = "ListNodes", !.i = 1]]
    /\ UNCHANGED <<pods, nodes, nodeInfos, snapshot, built, ret>>

ReaderListNodesStep(r) ==
    /\ readers[r].pc = "listNodes"
    /\ readers[r].i <= Len(snapshot.NodeInfoList)
    /\ LET n == nodeInfos[snapshot.NodeInfoList[readers[r].i]]
       IN readers' = [readers EXCEPT ![r].i = @ + 1,
                                     ![r].acc = IF n.node.present THEN Append(@, n.node) ELSE @]
    /\ UNCHANGED <<pods, nodes, nodeInfos, snapshot, built, ret>>

ReaderListNodesReturn(r) ==
    /\ readers[r].pc = "listNodes"
    /\ readers[r].i > Len(snapshot.NodeInfoList)
    /\ readers' = [readers EXCEPT ![r].pc = "done", ![r].out = [nodes |-> readers[r].acc]]
    /\ UNCHANGED <<pods, nodes, nodeInfos, snapshot, built, ret>>

\* List calls FilteredList with alwaysTrue
ReaderList(r) ==
    /\ readers[r].pc = "idle"
    /\ \E selector \in ReaderSelectors :
         readers' = [readers EXCEPT ![r] =
             [Idle EXCEPT !.pc = "sizing", !.op = "Pods.List",
                          !.args = <<"alwaysTrue", selector>>]]
    /\ UNCHANGED <<pods, nodes, nodeInfos, snapshot, built, ret>>

ReaderFilteredList(r) ==
    /\ readers[r].pc = "idle"
    /\ \E f \in ReaderFilters, selector \in ReaderSelectors :
         readers' = [readers EXCEPT ![r] =
             [Idle EXCEPT !.pc = "sizing", !.op = "Pods.FilteredList",
                          !.args = <<f, selector>>]]
    /\ UNCHANGED <<pods, nodes, nodeInfos, snapshot, built, ret>>

\* one iteration of the first loop of FilteredList, on a key not yet visited
ReaderSizingStep(r) ==
    /\ readers[r].pc = "sizing"
    /\ \E k \in Keys \ readers[r].visited :
         readers' = [readers EXCEPT
             ![r].visited = @ \cup {k},
             ![r].maxSize = @ + Len(nodeInfos[snapshot.NodeInfoMap[k]].pods)]
    /\ UNCHANGED <<pods, nodes, nodeInfos, snapshot, built, ret>>

\* the first loop is over: make([]*v1.Pod, 0, maxSize)
ReaderMake(r) ==
    /\ readers[r].pc = "sizing"
    /\ readers[r].visited = Keys
    /\ readers' = [readers EXCEPT ![r].pc = "filtering", ![r].visited = {}, ![r].acc = <<>>]
    /\ UNCHANGED <<pods, nodes, nodeInfos, snapshot, built, ret>>

\* one iteration of the second loop of FilteredList, on a key not yet visited
ReaderFilteringStep(r) ==
    /\ readers[r].pc = "filtering"
    /\ \E k \in Keys \ readers[r].visited :
         readers' = [readers EXCEPT
             ![r].visited = @ \cup {k},
             ![r].acc = @ \o FilterPods(nodeInfos[snapshot.NodeInfoMap[k]].pods,
                                        readers[r].args[1], readers[r].args[2])]
    /\ UNCHANGED <<pods, nodes, nodeInfos, snapshot, built, ret>>

ReaderFilteredListReturn(r) ==
    /\ readers[r].pc = "filtering"
    /\ readers[r].visited = Keys
    /\ readers' = [readers EXCEPT
           ![r].pc = "done",
           ![r].out = [pods |-> readers[r].acc, maxSize |-> readers[r].maxSize,
                       err |-> NilError]]
    /\ UNCHANGED <<pods, nodes, nodeInfos, snapshot, built, ret>>

\* the reader has consumed its result and may call again
ReaderReturn(r) ==
    /\ readers[r].pc = "done"
    /\ readers' = [readers EXCEPT ![r] = Idle]
    /\ UNCHANGED <<pods, nodes, nodeInfos, snapshot, built, ret>>

NextReaders ==
    \E r \in 1..NumReaders :
        \/ ReaderGet(r)
        \/ ReaderNodeInfosList(r)
        \/ ReaderHavePodsWithAffinityList(r)
        \/ ReaderListNodes(r)
        \/ ReaderListNodesStep(r)
        \/ ReaderListNodesReturn(r)
        \/ ReaderList(r)
        \/ ReaderFilteredList(r)
        \/ ReaderSizingStep(r)
        \/ ReaderMake(r)
        \/ ReaderFilteringStep(r)
        \/ ReaderFilteredListReturn(r)
        \/ ReaderReturn(r)

SpecReaders == InitReaders /\ [][NextReaders]_vars

----------------------------------------------------------------------------
(* Properties *)

Range(s) == {s[i] : i \in DOMAIN s}
Occ(s, x) == Cardinality({i \in DOMAIN s : s[i] = x})
Constructed == Len(built) > 1
NodeNamesOf(ns) == {ns[i].name : i \in DOMAIN ns}
PodNodeNamesOf(ps) == {ps[i].nodeName : i \in DOMAIN ps}

\* the key under which the aggregate r is stored
KeyOf(r) == CHOOSE k \in Keys : snapshot.NodeInfoMap[k] = r

\* how many times the pod p is held by the aggregates stored under keys
RECURSIVE Held(_, _)
Held(keys, p) ==
    IF keys = {}
    THEN 0
    ELSE LET k == CHOOSE x \in keys : TRUE
         IN Occ(nodeInfos[snapshot.NodeInfoMap[k]].pods, p) + Held(keys \ {k}, p)

\* every position of every aggregate's pod list
HeldSlots ==
    UNION {{<<k, i>> : i \in DOMAIN nodeInfos[snapshot.NodeInfoMap[k]].pods} : k \in Keys}

\* an aggregate with at least one pod that declares affinity terms
HasAffinityPod(r) == \E i \in DOMAIN nodeInfos[r].pods : nodeInfos[r].pods[i].affinity

\* C1: in every snapshot the keys of NodeInfoMap and the aggregates of
\* NodeInfoList correspond one to one: the list holds every aggregate of the
\* map exactly once, its length is the number of keys, and the identities of
\* its elements are exactly the keys.  The empty snapshot has both empty.
BijectionHolds ==
    LET m == snapshot.NodeInfoMap
        l == snapshot.NodeInfoList
    IN /\ Range(l) = {m[k] : k \in Keys}
       /\ Len(l) = Cardinality(Keys)
       /\ \A i, j \in DOMAIN l : i # j => l[i] # l[j]
       /\ \A j, k \in Keys : j # k => m[j] # m[k]
       /\ {KeyOf(l[i]) : i \in DOMAIN l} = Keys
       /\ \A k \in Keys : nodeInfos[m[k]].node.present => nodeInfos[m[k]].node.name = k
       /\ (~Constructed => Keys = {} /\ l = <<>>)

BijectionWitness ==
    /\ Constructed
    /\ Len(nodes) = 2 /\ nodes[1] = nodes[2]
    /\ Len(pods) = 3
    /\ Cardinality(Keys) = 3
    /\ Len(snapshot.NodeInfoList) = 3

GetCorrect ==
    ret.op = "NodeInfos.Get" =>
        LET name == ret.args[1]
            stored == CreateNodeNameToInfoMap(pods, nodes).m
        IN /\ name \in DOMAIN stored =>
                /\ ret.out.info = stored[name]
                /\ ret.out.info # NilRef
                /\ ret.out.err = NilError
           /\ name \notin DOMAIN stored =>
                /\ ret.out.info = NilRef
                /\ ret.out.err # NilError
                /\ ret.out.err[Len(ret.out.err)] = name
           /\ DOMAIN stored = Keys

GetWitness ==
    /\ Constructed
    /\ ret.op = "NodeInfos.Get"
    /\ ret.args = <<"">>
    /\ ret.out.err = NilError
    /\ nodeInfos[ret.out.info].pods = <<p4>>

\* C4: FilteredList returns, once per occurrence, exactly the held pods that
\* the predicate accepts and the selector matches; its length is at most the
\* capacity, the number of held pods; and as a multiset it is the same under
\* every order of the range over the map.
FilteredListExact ==
    ret.op = "Pods.FilteredList" =>
        LET f == ret.args[1]
            selector == ret.args[2]
        IN /\ Range(ret.out.pods) \subseteq PodUniverse
           /\ \A p \in PodUniverse :
                Occ(ret.out.pods, p) =
                    IF podFilter(f, p) /\ Matches(selector, p.labels)
                    THEN Held(Keys, p)
                    ELSE 0
           /\ Len(ret.out.pods) <= ret.out.maxSize
           /\ ret.out.maxSize = Cardinality(HeldSlots)
           /\ \A order \in Orders(Keys), p \in PodUniverse :
                Occ(FilteredList(snapshot, nodeInfos, f, selector, order).pods, p) =
                    Occ(ret.out.pods, p)

FilteredListWitness ==
    /\ ret.op = "Pods.FilteredList"
    /\ ret.args = <<"hasAffinity", Everything>>
    /\ ret.out.pods = <<p2, p2>>
    /\ ret.out.maxSize = 3
    /\ Cardinality(Keys) = 2

\* C5: a constructed snapshot's map has one entry per node name the input
\* refers to; each entry holds all and only the input pods assigned to its
\* key, so every input pod is held by exactly one aggregate.  For nodes A, B
\* and pods p1, p2, p3 the map is {A: [p1, p3], B: [p2]}, NodeInfoList has two
\* entries and the affinity list exactly B's.
ConstructionAggregates ==
    Constructed =>
        LET m == snapshot.NodeInfoMap
            PodsOf(k) == nodeInfos[m[k]].pods
        IN /\ Keys = NodeNamesOf(nodes) \cup PodNodeNamesOf(pods)
           /\ \A k \in Keys : PodsOf(k) = SelectSeq(pods, LAMBDA pod : pod.nodeName = k)
           /\ \A i \in DOMAIN pods :
                Cardinality({k \in Keys : pods[i] \in Range(PodsOf(k))}) = 1
           /\ (pods = <<p1, p2, p3>> /\ nodes = <<A, B>>) =>
                /\ Keys = {"A", "B"}
                /\ PodsOf("A") = <<p1, p3>>
                /\ PodsOf("B") = <<p2>>
                /\ Len(snapshot.NodeInfoList) = 2
                /\ snapshot.HavePodsWithAffinityNodeInfoList = <<m["B"]>>

ConstructionWitness ==
    /\ Constructed
    /\ pods = <<p1, p2, p3>>
    /\ nodes = <<A, B>>
    /\ snapshot.NodeInfoList = <<snapshot.NodeInfoMap["B"], snapshot.NodeInfoMap["A"]>>

\* C6: ListNodes returns the descriptors of the aggregates of NodeInfoList
\* that have one, in NodeInfoList's order: never more than NodeInfoList has
\* elements and never a nil descriptor, while an aggregate without a
\* descriptor is still returned by Get for its name.
ListNodesLive ==
    ret.op = "ListNodes" =>
        LET l == snapshot.NodeInfoList
            descriptors == [i \in DOMAIN l |-> nodeInfos[l[i]].node]
        IN /\ ret.out.nodes = SelectSeq(descriptors, LAMBDA n : n.present)
           /\ Len(ret.out.nodes) <= Len(l)
           /\ \A i \in DOMAIN ret.out.nodes : ret.out.nodes[i] # NilNode
           /\ \A k \in Keys :
                k \notin NodeNamesOf(nodes) =>
                    /\ ~nodeInfos[snapshot.NodeInfoMap[k]].node.present
                    /\ k \notin NodeNamesOf(ret.out.nodes)
                    /\ Get(snapshot, k) = [info |-> snapshot.NodeInfoMap[k], err |-> NilError]

ListNodesWitness ==
    /\ ret.op = "ListNodes"
    /\ Len(snapshot.NodeInfoList) = 3
    /\ ret.out.nodes = <<B>>
    /\ nodeInfos[snapshot.NodeInfoList[2]].node = B
    /\ "A" \in PodNodeNamesOf(pods) \ NodeNamesOf(nodes)

\* C8: the four listing operations return a nil error on every snapshot; on
\* a snapshot without entries they return empty results and Get fails with
\* NotFound for every name.
OnlyGetFails ==
    /\ ret.op \in {"Pods.List", "Pods.FilteredList", "NodeInfos.List",
                    "NodeInfos.HavePodsWithAffinityList"} => ret.out.err = NilError
    /\ Keys = {} =>
          /\ ret.op \in {"Pods.List", "Pods.FilteredList"} => ret.out.pods = <<>>
          /\ ret.op \in {"NodeInfos.List", "NodeInfos.HavePodsWithAffinityList"} =>
                ret.out.infos = <<>>
          /\ ret.op = "NodeInfos.Get" =>
                ret.out.info = NilRef /\ ret.out.err # NilError
          /\ \A name \in LookupNames : Get(snapshot, name).err # NilError
    /\ ret.op = "NodeInfos.Get" /\ ret.out.err # NilError => ret.args[1] \notin Keys

OnlyGetFailsWitness ==
    /\ Constructed
    /\ pods = <<>> /\ nodes = <<>>
    /\ ret.op = "Pods.FilteredList"
    /\ ret.args[1] = "alwaysTrue"
    /\ ret.out.pods = <<>>

\* C9: List(selector) returns what FilteredList(alwaysTrue, selector)
\* returns, under whatever order either ranges over the map: the held pods
\* whose labels the selector matches, once per occurrence, and the same error.
ListIsFilteredList ==
    ret.op = "Pods.List" =>
        LET selector == ret.args[1]
        IN /\ \A order \in Orders(Keys) :
                LET fl == FilteredList(snapshot, nodeInfos, "alwaysTrue", selector, order)
                IN /\ \A p \in PodUniverse : Occ(ret.out.pods, p) = Occ(fl.pods, p)
                   /\ Len(ret.out.pods) = Len(fl.pods)
                   /\ ret.out.err = fl.err
           /\ \A p \in PodUniverse :
                Occ(ret.out.pods, p) =
                    IF Matches(selector, p.labels) THEN Held(Keys, p) ELSE 0

ListWitness ==
    /\ ret.op = "Pods.List"
    /\ ret.args = <<{<<"app", "x">>}>>
    /\ ret.out.pods = <<p3, p1>>
    /\ Len(pods) = 3

ResultAsAlone(r) ==
    LET rd == readers[r]
    IN CASE rd.op = "NodeInfos.Get" -> rd.out = Get(snapshot, rd.args[1])
         [] rd.op = "NodeInfos.List" -> rd.out = NodeInfosList(snapshot)
         [] rd.op = "NodeInfos.HavePodsWithAffinityList" ->
                rd.out = HavePodsWithAffinityList(snapshot)
         [] rd.op = "ListNodes" -> rd.out.nodes = ListNodes(snapshot, nodeInfos)
         [] rd.op \in {"Pods.List", "Pods.FilteredList"} ->
                /\ rd.op = "Pods.List" => rd.args[1] = "alwaysTrue"
                /\ \A order \in Orders(Keys) :
                     LET fl == FilteredList(snapshot, nodeInfos, rd.args[1], rd.args[2], order)
                     IN /\ \A p \in PodUniverse : Occ(rd.out.pods, p) = Occ(fl.pods, p)
                        /\ Len(rd.out.pods) = Len(fl.pods)
                        /\ rd.out.maxSize = fl.maxSize
                        /\ rd.out.err = fl.err
                /\ \E order \in Orders(Keys) :
                     rd.out = FilteredList(snapshot, nodeInfos, rd.args[1], rd.args[2], order)

AsConstructed ==
    /\ nodeInfos = CreateNodeNameToInfoMap(pods, nodes).h
    /\ \E order \in Orders(Keys) : snapshot = NewSnapshot(pods, nodes, order)
    /\ \A r \in 1..NumReaders : readers[r].pc = "done" => ResultAsAlone(r)

\* C10: no step of any reader changes the snapshot or the aggregates it
\* refers to: under every interleaving the four fields keep the values
\* NewSnapshot gave them, and every query returns what it returns when run
\* alone, up to the order of the pods.
ReadersDoNotMutate ==
    /\ [][snapshot' = snapshot /\ nodeInfos' = nodeInfos]_vars
    /\ []AsConstructed

ReadersWitness ==
    /\ readers[1].pc = "done"
    /\ readers[1].op = "Pods.FilteredList"
    /\ readers[1].out.pods = <<p2>>
    /\ readers[2].pc = "filtering"
    /\ readers[2].op = "Pods.List"
    /\ readers[2].visited = {"B"}
    /\ Len(snapshot.NodeInfoList) = 2

====
